---- MODULE Spec2Model ----
(***************************************************************************)
(* A model of src/src/stream.rs: the OutStream wrapper around a native     *)
(* output-stream handle.  Three specifications share the module:           *)
(*   Spec       the wrapper's lifecycle: construction, drop, the three     *)
(*              callback registrations, the native callback trampolines,   *)
(*              get_device, destroy and the plain forwarding calls;        *)
(*   SpecCallbacks  the part of Spec that touches the callback holder;     *)
(*   SpecWrite  the write transaction: write_stream, begin_write and       *)
(*              end_write against a native library whose answers are       *)
(*              chosen nondeterministically.                               *)
(* Indices are 0-based as in the source; At/BufLen translate to TLA+'s     *)
(* 1-based sequences.                                                      *)
(***************************************************************************)
EXTENDS Integers, Sequences, FiniteSets, TLC

\* ------------------------------------------------------------------ bounds
\* Largest channel count of the native layout; callers pass up to one buffer more.
MaxChannels == 2
\* Largest number of samples in one channel buffer.
MaxFrames == 2
\* Closures an application has at hand for each role.
NumClosures == 2
\* get_device() calls in one run.
MaxGetDevice == 2
\* The device's reference count when the stream is handed to the wrapper.
InitialDeviceRef == 1

VARIABLES
    \* ---- the native handle (ffi::SoundIoOutStream) and its device
    channel_count,   \* (*stream).layout.channel_count
    userdata,        \* (*stream).userdata: "null" or the wrapper whose holder it addresses
    installed,       \* roles whose native callback field holds a trampoline
    device_ref,      \* reference count of (*stream).device
    destroys,        \* invocations of soundio_outstream_destroy
    \* ---- the wrappers (OutStream values) built over the handle
    wrappers,        \* wrapper -> [state, callbacks]
    \* ---- observations of the most recent operation
    last,            \* the callback delivery just made, if it was the last operation
    ws,              \* the last write_stream call: arguments, native answers, result
    trace,           \* native primitives invoked and samples stored by the last write call
    mem,             \* destination memory handed out by the last begin-write
    \* ---- history
    latest,          \* wrapper -> role -> closure most recently registered (0: none)
    regBy,           \* "none", the one live wrapper all registrations went through, or "mixed"
    destroy_calls,   \* explicit destroy() calls
    get_device_calls \* get_device() calls

vars == <<channel_count, userdata, installed, device_ref, destroys, wrappers,
          last, ws, trace, mem, latest, regBy, destroy_calls, get_device_calls>>

streamVars == <<userdata, installed, device_ref, destroys, wrappers, last,
                latest, regBy, destroy_calls, get_device_calls>>
writeVars == <<ws, trace, mem>>

\* ------------------------------------------------------------ native types
\* ffi::SioError values the native library answers with besides None.
NativeErrors == {"Invalid", "Underflow"}
NativeRets == {"None"} \cup NativeErrors

\* Option<ffi::SioError> of the forwarding wrappers: None on success, Some(err) otherwise.
ErrOption(ret) == IF ret = "None" THEN "None" ELSE ret

\* usize is wider than every length of the model; a negative i32 cast to it
\* wraps to a value above all of them.
UsizeModulus == 2 ^ 30
AsUsize(x) == IF x < 0 THEN x + UsizeModulus ELSE x

\* Width of one f32 sample in bytes.
SampleWidth == 4

\* ------------------------------------------------------------ write inputs
\* Sample stored at buffers[c][i]: every position carries its own value.
SampleOf(c, i) == 16 * (c + 1) + i + 1

RECURSIVE SeqsUpTo(_, _)
\* Sequences over S of length at most n.
SeqsUpTo(S, n) ==
    IF n = 0 THEN {<<>>}
    ELSE LET shorter == SeqsUpTo(S, n - 1)
         IN shorter \cup {Append(s, x) : s \in {t \in shorter : Len(t) = n - 1}, x \in S}

\* The buffer sets a caller may pass: up to MaxChannels + 1 channel buffers,
\* each of its own length up to MaxFrames.
BufferSets ==
    {[c \in 1..Len(lens) |-> [i \in 1..lens[c] |-> SampleOf(c - 1, i - 1)]] :
        lens \in SeqsUpTo(0..MaxFrames, MaxChannels + 1)}

MinFrameCounts == (-1)..MaxFrames

\* buffers[c][i] and buffers[c].len() with the source's 0-based indices.
At(buffers, c, i) == buffers[c + 1][i + 1]
BufLen(buffers, c) == Len(buffers[c + 1])

\* Channel areas the native begin-write may hand out for cc channels:
\* interleaved, planar, interleaved with padding, and per-channel strides.
Layouts == {"interleaved", "planar", "padded", "mixed"}
AreasOf(layout, cc) ==
    [c \in 0..(cc - 1) |->
        CASE layout = "interleaved" -> [ptr |-> SampleWidth * c, step |-> SampleWidth * cc]
          [] layout = "planar" -> [ptr |-> 64 * c, step |-> SampleWidth]
          [] layout = "padded" -> [ptr |-> 8 + SampleWidth * c, step |-> 2 * SampleWidth * cc]
          [] OTHER -> [ptr |-> 64 * c, step |-> SampleWidth * (c + 2)]]

\* ------------------------------------------------------------ write_stream
Ok(n) == [kind |-> "Ok", frames |-> n, err |-> "None"]
Err(e) == [kind |-> "Err", frames |-> 0, err |-> e]
Panic == [kind |-> "Panic", frames |-> 0, err |-> "None"]
NoResult == [kind |-> "NoCall", frames |-> 0, err |-> "None"]
\* The Option<SioError> a forwarding wrapper returns.
Forwarded(ret) == [kind |-> "Option", frames |-> 0, err |-> ErrOption(ret)]

BeginEvent(requested) == <<"begin", requested, 0>>
WriteEvent(addr, val) == <<"write", addr, val>>
EndEvent == <<"end", 0, 0>>

\* Variant: the count check accepts one buffer too few.
TooFewBuffersOffByOne(buffers, cc) == Len(buffers) + 1 < AsUsize(cc)

\* First validation: buffers.len() < channel_count as usize.
TooFewBuffers(buffers, cc) == Len(buffers) < AsUsize(cc)

\* Variant: only the first buffer's length is compared with min_frame_count.
TooFewFramesFirstOnly(buffers, min) ==
    Len(buffers) > 0 /\ Len(buffers[1]) < AsUsize(min)

\* Second validation: some buffer is shorter than min_frame_count as usize.
TooFewFrames(buffers, min) ==
    ~ \A c \in 1..Len(buffers) : Len(buffers[c]) >= AsUsize(min)

\* Variant: the destination assumes tightly packed samples.
DestAddrPacked(area, idx) == area.ptr + SampleWidth * idx

\* Destination of frame idx in a channel area.
DestAddr(area, idx) == area.ptr + area.step * idx

\* Variant: the loop copies the requested frames, whatever begin-write reported.
FramesToCopyRequested(actual, requested) == requested

\* Upper end of the copy loop's frame range: 0..actual_frame_count.
FramesToCopy(actual, requested) == actual

\* Variant: the frame range includes its upper end.
CopyOrderInclusive(actual, cc) ==
    [k \in 1..((actual + 1) * cc) |-> [idx |-> (k - 1) \div cc, channel |-> (k - 1) % cc]]

\* The copy loop's iterations in execution order: idx outermost, channel innermost.
CopyOrder(actual, cc) ==
    [k \in 1..(actual * cc) |-> [idx |-> (k - 1) \div cc, channel |-> (k - 1) % cc]]

\* Iterations whose read buffers[channel][idx] is out of range (the read panics).
BadReads(buffers, order) ==
    {k \in 1..Len(order) :
        \/ order[k].channel >= Len(buffers)
        \/ order[k].idx >= BufLen(buffers, order[k].channel)}

Min(S) == CHOOSE x \in S : \A y \in S : x <= y

\* The stores of the copy loop, up to the first out-of-range read.
CopyWrites(buffers, areas, actual, cc) ==
    LET order == CopyOrder(actual, cc)
        bad == BadReads(buffers, order)
        done == IF bad = {} THEN Len(order) ELSE Min(bad) - 1
    IN [k \in 1..done |->
          WriteEvent(DestAddr(areas[order[k].channel], order[k].idx),
                     At(buffers, order[k].channel, order[k].idx))]

CopyPanics(buffers, actual, cc) == BadReads(buffers, CopyOrder(actual, cc)) # {}

\* Variant: end-write's answer is dropped.
EndResultIgnoringError(endRet, actual) == Ok(actual)

\* The value returned once end-write has answered.
EndResult(endRet, actual) ==
    IF ErrOption(endRet) = "None" THEN Ok(actual) ELSE Err(endRet)

\* write_stream as a function of its arguments and of the native answers:
\* beginRet/actual/layout of begin-write, endRet of end-write.
WriteStreamOutcome(cc, min, buffers, beginRet, actual, layout, endRet) ==
    LET notCalled == [begin |-> "NotCalled", requested |-> 0, actual |-> 0,
                      areas |-> <<>>, end |-> "NotCalled"]
    IN
    IF TooFewBuffers(buffers, cc) THEN
        [result |-> Err("Invalid"), trace |-> <<>>, native |-> notCalled]
    ELSE IF TooFewFrames(buffers, min) THEN
        [result |-> Err("Invalid"), trace |-> <<>>, native |-> notCalled]
    ELSE IF Len(buffers) = 0 THEN
        \* buffers[0] on an empty vector
        [result |-> Panic, trace |-> <<>>, native |-> notCalled]
    ELSE
        LET requested == BufLen(buffers, 0)
        IN
        IF ErrOption(beginRet) # "None" THEN
            [result |-> Err(beginRet), trace |-> <<BeginEvent(requested)>>,
             native |-> [notCalled EXCEPT !.begin = beginRet, !.requested = requested]]
        ELSE
            LET areas == AreasOf(layout, cc)
                frames == FramesToCopy(actual, requested)
                writes == CopyWrites(buffers, areas, frames, cc)
                begun == [begin |-> "None", requested |-> requested, actual |-> actual,
                          areas |-> areas, end |-> "NotCalled"]
            IN
            IF CopyPanics(buffers, frames, cc) THEN
                [result |-> Panic, trace |-> <<BeginEvent(requested)>> \o writes,
                 native |-> begun]
            ELSE
                [result |-> EndResult(endRet, actual),
                 trace |-> <<BeginEvent(requested)>> \o writes \o <<EndEvent>>,
                 native |-> [begun EXCEPT !.end = endRet]]

\* Memory after a sequence of stores, later stores overwriting earlier ones.
MemAfter(tr) ==
    LET stores == {k \in 1..Len(tr) : tr[k][1] = "write"}
        addrs == {tr[k][2] : k \in stores}
    IN [a \in addrs |->
          LET lastk == CHOOSE k \in stores :
                          tr[k][2] = a /\ \A j \in stores : tr[j][2] = a => j <= k
          IN tr[lastk][3]]

NoCall == [op |-> "none", min |-> 0, buffers |-> <<>>, result |-> NoResult,
           native |-> [begin |-> "NotCalled", requested |-> 0, actual |-> 0,
                       areas |-> <<>>, end |-> "NotCalled"]]

\* No write call is in progress and the previous result has been taken.
Idle == ws.op = "none"

WriteStream ==
    /\ Idle
    /\ \E min \in MinFrameCounts, buffers \in BufferSets,
          beginRet \in NativeRets, layout \in Layouts, endRet \in NativeRets :
         \E actual \in 0..(IF Len(buffers) = 0 THEN 0 ELSE BufLen(buffers, 0)) :
           LET out == WriteStreamOutcome(channel_count, min, buffers,
                                         beginRet, actual, layout, endRet)
           IN /\ ws' = [op |-> "write_stream", min |-> min, buffers |-> buffers,
                        result |-> out.result, native |-> out.native]
              /\ trace' = out.trace
              /\ mem' = MemAfter(out.trace)
    /\ UNCHANGED <<channel_count, streamVars>>

\* begin_write called directly: forwards to the native primitive.
BeginWrite ==
    /\ Idle
    /\ \E requested \in 0..MaxFrames, ret \in NativeRets :
        /\ ws' = [NoCall EXCEPT !.op = "begin_write", !.result = Forwarded(ret),
                                !.native.begin = ret, !.native.requested = requested]
        /\ trace' = <<BeginEvent(requested)>>
        /\ mem' = MemAfter(<<>>)
        /\ UNCHANGED <<channel_count, streamVars>>

\* end_write called directly: forwards to the native primitive.
EndWrite ==
    /\ Idle
    /\ \E ret \in NativeRets :
        /\ ws' = [NoCall EXCEPT !.op = "end_write", !.result = Forwarded(ret),
                                !.native.end = ret]
        /\ trace' = <<EndEvent>>
        /\ mem' = MemAfter(<<>>)
        /\ UNCHANGED <<channel_count, streamVars>>

\* ---------------------------------------------------------------- wrappers
\* Addresses at which an OutStream value may live; a wrapper is named by the
\* address of its callbacks field, which is what userdata stores.
Wrappers == {"w1", "w2"}
Roles == {"write", "underflow", "error"}
ClosureIds == 1..NumClosures

\* OutStreamCallbacks::default(): no closure in any role.  A field is a
\* sequence: <<>> is None, <<c>> is Some(c).
DefaultCallbacks == [r \in Roles |-> <<>>]

\* OutStream::new: the handle and a fresh, empty callback holder.
NewWrapper == [state |-> "live", callbacks |-> DefaultCallbacks]
\* No OutStream lives at the address (never built, or dropped).
Gone == [state |-> "gone", callbacks |-> DefaultCallbacks]

Live(w) == wrappers[w].state = "live"

NoCallback == [op |-> "none", role |-> "none", called |-> <<>>, ub |-> FALSE]

NoRegistrations == [r \in Roles |-> 0]

\* Variant: dropping a wrapper destroys the native stream.
DropDestroys(d) == d + 1

\* impl Drop for OutStream: the body is empty; the native destroy count stays.
DropEffect(d) == d

\* Variant: a registration keeps the closures registered before it.
StoreAccumulating(field, c) == Append(field, c)

\* self.callbacks.<role> = Some(callback)
Store(field, c) == <<c>>

\* Variant: userdata is set by the first registration only.
UserdataSetOnce(old, w) == IF old = "null" THEN w ELSE old

\* (*self.stream).userdata = &self.callbacks
UserdataAfterRegister(old, w) == w

\* The holder field a role's trampoline reads: callbacks.write in
\* write_wrapper, callbacks.underflow in underflow_wrapper, callbacks.error in
\* error_wrapper.
TrampolineField(role) == role

\* Device::inc_ref: one more reference on the native device.
IncRef(rc) == rc + 1

\* Variant: get_device hands the device out without taking a reference.
DeviceRefUntouched(rc) == rc

\* The device's reference count after get_device: one inc_ref.
DeviceRefAfterGet(rc) == IncRef(rc)

\* The native handle has not been destroyed: its fields may be used.  Every
\* operation that reaches into the handle is taken only while this holds.
HandleValid == destroys = 0

\* OutStream::new(raw) at a free address.
New(w) ==
    /\ ~ Live(w)
    /\ wrappers' = [wrappers EXCEPT ![w] = NewWrapper]
    /\ latest' = [latest EXCEPT ![w] = NoRegistrations]
    /\ UNCHANGED <<channel_count, userdata, installed, device_ref, destroys, last,
                   regBy, destroy_calls, get_device_calls, writeVars>>

\* A wrapper goes out of scope: its holder and closures are freed, the
\* native handle and the pointer it holds to the holder are left as they are.
Drop(w) ==
    /\ Live(w)
    /\ wrappers' = [wrappers EXCEPT ![w] = Gone]
    /\ latest' = [latest EXCEPT ![w] = NoRegistrations]
    /\ destroys' = DropEffect(destroys)
    /\ regBy' = IF regBy = w THEN "mixed" ELSE regBy
    /\ UNCHANGED <<channel_count, userdata, installed, device_ref, last,
                   destroy_calls, get_device_calls, writeVars>>

\* The common body of the three registrations.
Register(w, role, c) ==
    /\ Live(w) /\ HandleValid
    /\ wrappers' = [wrappers EXCEPT ![w].callbacks[role] = Store(@, c)]
    /\ installed' = installed \cup {role}
    /\ userdata' = UserdataAfterRegister(userdata, w)
    /\ latest' = [latest EXCEPT ![w][role] = c]
    /\ regBy' = IF regBy \in {"none", w} THEN w ELSE "mixed"
    /\ last' = NoCallback
    /\ UNCHANGED <<channel_count, device_ref, destroys, destroy_calls,
                   get_device_calls, writeVars>>

RegisterWriteCallback == \E w \in Wrappers, c \in ClosureIds : Register(w, "write", c)
RegisterUnderflowCallback == \E w \in Wrappers, c \in ClosureIds : Register(w, "underflow", c)
RegisterErrorCallback == \E w \in Wrappers, c \in ClosureIds : Register(w, "error", c)

\* What the trampoline of `role` may end up calling when userdata addresses a
\* holder that has been freed: nothing, or whatever closure the freed field
\* happens to show.
DanglingCalls(role) == {<<>>} \cup {<<<<role, c>>>> : c \in ClosureIds}

\* The closures the trampoline of `role` calls through a live holder.
CallsThrough(holder, role) ==
    LET field == TrampolineField(role)
    IN [k \in 1..Len(holder[field]) |-> <<field, holder[field][k]>>]

\* The native library invokes the trampoline installed for `role`: it builds
\* a temporary wrapper from the raw handle, reads the holder userdata
\* addresses, calls the closure found there and drops the temporary wrapper.
Trampoline(role) ==
    /\ HandleValid
    /\ role \in installed
    /\ userdata # "null"
    /\ IF Live(userdata)
       THEN last' = [op |-> "callback", role |-> role,
                     called |-> CallsThrough(wrappers[userdata].callbacks, role),
                     ub |-> FALSE]
       ELSE \E calls \in DanglingCalls(role) :
                last' = [op |-> "callback", role |-> role, called |-> calls, ub |-> TRUE]
    /\ destroys' = DropEffect(destroys)
    /\ UNCHANGED <<channel_count, userdata, installed, device_ref, wrappers,
                   latest, regBy, destroy_calls, get_device_calls, writeVars>>

WriteWrapper == Trampoline("write")
UnderflowWrapper == Trampoline("underflow")
ErrorWrapper == Trampoline("error")

GetDevice ==
    \E w \in Wrappers :
        /\ Live(w) /\ HandleValid
        /\ get_device_calls < MaxGetDevice
        /\ device_ref' = DeviceRefAfterGet(device_ref)
        /\ get_device_calls' = get_device_calls + 1
        /\ UNCHANGED <<channel_count, userdata, installed, destroys, wrappers, last,
                       latest, regBy, destroy_calls, writeVars>>

Destroy ==
    \E w \in Wrappers :
        /\ Live(w) /\ HandleValid
        /\ destroys' = destroys + 1
        /\ destroy_calls' = destroy_calls + 1
        /\ UNCHANGED <<channel_count, userdata, installed, device_ref, wrappers, last,
                       latest, regBy, get_device_calls, writeVars>>

\* open, start, clear_buffer, pause: the native call's answer is handed back
\* as an Option; nothing the wrapper holds changes.
Forward ==
    /\ HandleValid
    /\ \E w \in Wrappers : Live(w)
    /\ \E ret \in NativeRets : ErrOption(ret) \in NativeRets
    /\ UNCHANGED vars

Open == Forward
Start == Forward
ClearBuffer == Forward
Pause == Forward

InitStream ==
    /\ userdata = "null"
    /\ installed = {}
    /\ device_ref = InitialDeviceRef
    /\ destroys = 0
    /\ wrappers = [w \in Wrappers |-> IF w = "w1" THEN NewWrapper ELSE Gone]
    /\ last = NoCallback
    /\ latest = [w \in Wrappers |-> NoRegistrations]
    /\ regBy = "none"
    /\ destroy_calls = 0
    /\ get_device_calls = 0

InitWriteVars ==
    /\ ws = NoCall
    /\ trace = <<>>
    /\ mem = MemAfter(<<>>)

Init ==
    /\ channel_count = MaxChannels
    /\ InitStream
    /\ InitWriteVars

Next ==
    \/ \E w \in Wrappers : New(w)
    \/ \E w \in Wrappers : Drop(w)
    \/ RegisterWriteCallback
    \/ RegisterUnderflowCallback
    \/ RegisterErrorCallback
    \/ WriteWrapper
    \/ UnderflowWrapper
    \/ ErrorWrapper
    \/ GetDevice
    \/ Destroy
    \/ Open
    \/ Start
    \/ ClearBuffer
    \/ Pause

Spec == Init /\ [][Next]_vars

\* The callback machinery alone: construction, drop, registration, native
\* callback delivery and destroy.
NextCallbacks ==
    \/ \E w \in Wrappers : New(w)
    \/ \E w \in Wrappers : Drop(w)
    \/ RegisterWriteCallback
    \/ RegisterUnderflowCallback
    \/ RegisterErrorCallback
    \/ WriteWrapper
    \/ UnderflowWrapper
    \/ ErrorWrapper
    \/ Destroy

SpecCallbacks == Init /\ [][NextCallbacks]_vars

InitWrite ==
    /\ channel_count \in 0..MaxChannels
    /\ InitStream
    /\ InitWriteVars

\* The caller takes the returned value; the wrapper keeps nothing of the call.
TakeResult ==
    /\ ~ Idle
    /\ ws' = NoCall
    /\ trace' = <<>>
    /\ mem' = MemAfter(<<>>)
    /\ UNCHANGED <<channel_count, streamVars>>

NextWrite == WriteStream \/ BeginWrite \/ EndWrite \/ TakeResult

SpecWrite == InitWrite /\ [][NextWrite]_vars

\* ================================================= properties: write_stream
\* The terms the statements below are written in.
IsWriteCall == ws.op = "write_stream"
NumBuffers == Len(ws.buffers)
Channels == 0..(channel_count - 1)
Actual == ws.native.actual
BeginCalls == {k \in 1..Len(trace) : trace[k][1] = "begin"}
EndCalls == {k \in 1..Len(trace) : trace[k][1] = "end"}
Stores == {k \in 1..Len(trace) : trace[k][1] = "write"}

\* Both validation checks of write_stream let the call through.
PassesValidation ==
    /\ NumBuffers >= channel_count
    /\ \A c \in 1..NumBuffers : Len(ws.buffers[c]) >= AsUsize(ws.min)

\* buffers[c][i] exists and some store of the call carries it.
Copied(c, i) ==
    /\ c < NumBuffers
    /\ i < BufLen(ws.buffers, c)
    /\ \E k \in Stores : trace[k][3] = At(ws.buffers, c, i)

\* Frames 0..n-1 of each of the stream's channels were stored, and nothing else.
ExactCopy(n) ==
    /\ Cardinality(Stores) = n * channel_count
    /\ \A c \in Channels : \A i \in 0..(n - 1) : Copied(c, i)

\* Each of the stream's channels has a buffer holding at least n samples.
ChannelsHold(n) ==
    \A c \in Channels : c < NumBuffers /\ BufLen(ws.buffers, c) >= n

\* C1: a write_stream call with fewer buffers than the stream has channels
\* returns Invalid, invokes neither begin-write nor end-write and stores nothing.
C1_FewBuffersRejected ==
    (IsWriteCall /\ NumBuffers < channel_count)
        => /\ ws.result = Err("Invalid")
           /\ BeginCalls = {} /\ EndCalls = {} /\ Stores = {}
           /\ DOMAIN mem = {}

C1_Witness ==
    /\ IsWriteCall
    /\ NumBuffers = 1 /\ channel_count = 2
    /\ Len(ws.buffers[1]) >= 1 /\ ws.min = 1
    /\ ws.result = Err("Invalid") /\ trace = <<>>

\* C2: a write_stream call in which some supplied buffer, at any position,
\* holds fewer than min_frame_count samples returns Invalid.
C2_ShortBufferRejected ==
    (IsWriteCall /\ \E c \in 1..NumBuffers : Len(ws.buffers[c]) < ws.min)
        => ws.result = Err("Invalid")

C2_Witness ==
    /\ IsWriteCall
    /\ channel_count >= 1 /\ NumBuffers = channel_count + 1
    /\ \A c \in 1..channel_count : Len(ws.buffers[c]) >= ws.min
    /\ Len(ws.buffers[NumBuffers]) < ws.min
    /\ ws.result = Err("Invalid")

\* begin-write succeeded and reported fewer frames than buffers[0].len().
ShortBegin ==
    /\ IsWriteCall /\ PassesValidation /\ NumBuffers > 0
    /\ ws.native.begin = "None"
    /\ ws.native.requested = BufLen(ws.buffers, 0)
    /\ Actual < ws.native.requested

ShortBeginOutcome ==
    /\ ExactCopy(Actual)
    /\ ws.native.end = "None" => ws.result = Ok(Actual)

\* C3 as stated: whenever begin-write reports fewer frames than requested,
\* exactly that many frames of every channel are copied and, end-write
\* succeeding, that count is returned.
C3_Original == ShortBegin => ShortBeginOutcome

\* C3 as amended: the same, for calls in which each of the stream's channel
\* buffers holds at least the reported number of frames.
C3_ShortBeginCopiesActual ==
    (ShortBegin /\ ChannelsHold(Actual)) => ShortBeginOutcome

C3_Witness ==
    /\ ShortBegin /\ ChannelsHold(Actual)
    /\ channel_count = 2 /\ Actual >= 1
    /\ Cardinality(Stores) = 2 * Actual
    /\ ws.result = Ok(Actual)

\* The addresses write_stream is to store to: base + step * index.
Targets ==
    {ws.native.areas[c].ptr + ws.native.areas[c].step * i :
        c \in Channels, i \in 0..(Actual - 1)}

\* C4: in a successful write_stream, buffers[c][i] is stored at
\* area[c].ptr + area[c].step * i for every channel c and frame i below the
\* actual count, whatever the step, and no other address is stored to.
C4_StridedDestinations ==
    (IsWriteCall /\ ws.result.kind = "Ok")
        => /\ \A c \in Channels : \A i \in 0..(Actual - 1) :
                \E k \in Stores :
                    /\ trace[k][2] = ws.native.areas[c].ptr + ws.native.areas[c].step * i
                    /\ trace[k][3] = At(ws.buffers, c, i)
           /\ \A k \in Stores : trace[k][2] \in Targets
           /\ DOMAIN mem = Targets

C4_Witness ==
    /\ IsWriteCall /\ ws.result.kind = "Ok"
    /\ channel_count = 2 /\ Actual = 2
    /\ \E c \in Channels : ws.native.areas[c].step > SampleWidth
    /\ Cardinality(DOMAIN mem) = 4
    /\ \A c \in Channels : mem[ws.native.areas[c].ptr + ws.native.areas[c].step]
                              = At(ws.buffers, c, 1)

\* What C7 says of one call.
ReturnsCountOrFirstError ==
    /\ ws.result.kind \in {"Ok", "Err"}
    /\ ws.result.kind = "Ok"
         => ws.result.frames = Actual /\ Cardinality(Stores) = Actual * channel_count
    /\ ws.native.begin \in NativeErrors
         => /\ ws.result = Err(ws.native.begin)
            /\ Stores = {} /\ EndCalls = {}
    /\ ws.native.begin = "None"
         => /\ EndCalls = {Len(trace)}
            /\ ws.native.end \in NativeErrors => ws.result = Err(ws.native.end)
            /\ ws.native.end = "None" => ws.result = Ok(Actual)

\* C7 as stated: every write_stream call returns the frame count or the first
\* native error; a failed begin-write copies nothing and skips end-write; a
\* successful one is followed by exactly one end-write, after the copying,
\* whose failure is the returned error.
C7_Original == IsWriteCall => ReturnsCountOrFirstError

\* Every read of the call's buffers is in range: buffers[0] exists and, once
\* begin-write has answered, each channel's buffer holds the reported frames.
ReadsInRange ==
    /\ NumBuffers > 0
    /\ ws.native.begin = "None" => ChannelsHold(Actual)

\* C7 as amended: the same, for calls whose reads are all in range.
C7_CountOrFirstError ==
    (IsWriteCall /\ ReadsInRange) => ReturnsCountOrFirstError

C7_Witness ==
    /\ IsWriteCall /\ ReadsInRange
    /\ ws.native.begin = "None" /\ ws.native.end \in NativeErrors
    /\ Stores # {} /\ EndCalls = {Len(trace)}
    /\ ws.result = Err(ws.native.end)

\* C10 as stated: a call that passes both validation checks never reads
\* outside its buffers, whatever count at most the requested one begin-write
\* reports.
C10_Original ==
    (IsWriteCall /\ PassesValidation) => ws.result.kind # "Panic"

\* C10 as amended: the same, for calls that supply at least one buffer and
\* in which no buffer of the stream's channels is shorter than buffers[0].
C10_NoOutOfRangeRead ==
    (IsWriteCall /\ PassesValidation /\ NumBuffers > 0
        /\ ChannelsHold(BufLen(ws.buffers, 0)))
        => ws.result.kind # "Panic"

C10_Witness ==
    /\ IsWriteCall /\ PassesValidation
    /\ channel_count = 2 /\ NumBuffers = 3
    /\ BufLen(ws.buffers, 0) = 1 /\ BufLen(ws.buffers, 1) = 2 /\ BufLen(ws.buffers, 2) = 0
    /\ ws.native.begin = "None" /\ Actual = 1
    /\ ws.result.kind = "Ok"

\* ============================================ properties: wrapper lifecycle
\* The holder of a live wrapper keeps, per role, at most one closure: the one
\* registered most recently through that wrapper.
HoldsLatestOnly(w) ==
    \A r \in Roles :
        /\ Len(wrappers[w].callbacks[r]) <= 1
        /\ wrappers[w].callbacks[r] =
              IF latest[w][r] = 0 THEN <<>> ELSE <<latest[w][r]>>

\* C5: after registrations made through one wrapper, its holder keeps at most
\* one closure per role, the most recently registered one, and a native
\* invocation of a role's trampoline calls exactly that closure once and no
\* other closure.
C5_LatestClosureOnly ==
    /\ \A w \in Wrappers : Live(w) => HoldsLatestOnly(w)
    /\ \A w \in Wrappers :
          (regBy = w /\ last.op = "callback")
              => /\ latest[w][last.role] # 0
                 /\ last.called = <<<<last.role, latest[w][last.role]>>>>
                 /\ ~ last.ub

C5_Witness ==
    /\ regBy = "w1"
    /\ latest["w1"] = [write |-> 2, underflow |-> 1, error |-> 0]
    /\ last.op = "callback" /\ last.role = "write"
    /\ last.called = <<<<"write", 2>>>>

\* C6: the device's reference count is its initial value plus the number of
\* get_device() calls made, whatever other operations ran.
C6_OneRefPerGetDevice ==
    device_ref = InitialDeviceRef + get_device_calls

C6_Witness ==
    /\ get_device_calls = MaxGetDevice
    /\ device_ref = InitialDeviceRef + MaxGetDevice
    /\ installed # {} /\ last.op = "callback"
    /\ ~ Live("w1")

\* C8: the native destroy primitive has been invoked exactly as often as
\* destroy() was called: no drop of a wrapper, a trampoline's temporary one
\* included, invokes it.
C8_DestroyOnlyExplicit ==
    destroys = destroy_calls

C8_Witness ==
    /\ ~ Live("w1") /\ Live("w2")
    /\ last.op = "callback"
    /\ destroy_calls = 1 /\ destroys = 1

\* The step is the registration of closure c for role r through wrapper w
\* (the history of registrations is compared first: it rules out most steps).
RegistrationStep(w, r, c) ==
    /\ latest'[w][r] = c
    /\ \A w2 \in Wrappers \ {w} : latest'[w2] = latest[w2]
    /\ Register(w, r, c)

\* What a completed registration of closure c for role r through wrapper w
\* leaves behind, but for the last clause of C9.
RegistrationEffect(w, r, c) ==
    /\ wrappers'[w].callbacks[r] = <<c>>
    /\ installed' = installed \cup {r}
    /\ userdata' = w
    /\ \A r2 \in Roles \ {r} : wrappers'[w].callbacks[r2] = wrappers[w].callbacks[r2]

\* Every role with an installed trampoline has a closure in the holder that
\* userdata addresses.
InstalledRolesHaveClosures ==
    \A r \in installed : wrappers[userdata].callbacks[r] # <<>>

\* C9 as stated: each registration stores the closure, installs the role's
\* trampoline and points userdata at the registering wrapper's holder,
\* leaving the other roles alone; afterwards every role with an installed
\* trampoline has a closure in the holder userdata addresses.
C9_Original ==
    [][\A w \in Wrappers, r \in Roles, c \in ClosureIds :
          RegistrationStep(w, r, c) =>
              /\ RegistrationEffect(w, r, c)
              /\ InstalledRolesHaveClosures']_vars

\* C9 as amended: the last clause holds when every registration on the native
\* handle so far was made through the registering wrapper.
C9_RegistrationEffect ==
    [][\A w \in Wrappers, r \in Roles, c \in ClosureIds :
          RegistrationStep(w, r, c) =>
              /\ RegistrationEffect(w, r, c)
              /\ regBy' = w => InstalledRolesHaveClosures']_vars

C9_Witness ==
    /\ regBy = "w1" /\ userdata = "w1"
    /\ installed = {"write", "error"}
    /\ wrappers["w1"].callbacks = [write |-> <<1>>, underflow |-> <<>>, error |-> <<2>>]

====
